---- MODULE Spec2Model ----
(***************************************************************************)
(* State-machine model of frontend/static/js/main.js: the recording        *)
(* client that streams microphone audio over a WebSocket, renders the       *)
(* messages it receives, and edits the keyword list of the backend.        *)
(*                                                                          *)
(* The page is single threaded: every action below is one task of the      *)
(* event loop (a click handler, a promise continuation, a WebSocket or     *)
(* MediaRecorder event with the handlers main.js installs, a timer).       *)
(* Browser objects (WebSocket, MediaRecorder, MediaStream) are modelled by *)
(* what their standards say the calls made by main.js do.                  *)
(***************************************************************************)
EXTENDS Naturals, Sequences, FiniteSets

\* ---------------------------------------------------------------- bounds
MaxStarts    == 2   \* start-intents ever handled
MaxReconnects == 1  \* reconnection timers ever fired
MaxRecorders == 2   \* MediaRecorder objects ever constructed
MaxChunks    == 2   \* non-empty capture chunks ever produced
MaxSent      == 2   \* frames transmitted after which the selection stays
MaxRequests  == 2   \* keyword requests made by the user (after the load)
MaxMessages  == 2   \* inbound messages ever delivered

\* ------------------------------------------------------------ value sets
\* the enumerated speaker types of the spec's data model
SpeakerTypes == {"rep", "prospect"}
\* what speakerTypeSelect.value may hold when it is not confined to the
\* enumerated set: main.js treats it as an opaque string and never checks it
SelectValues == SpeakerTypes \cup {"other"}
\* data.type of an inbound message: the three tags ws.onmessage tests, and
\* one it does not know
Tags == {"transcription", "alert", "self_test_response", "unknown"}

VARIABLES
    sockets,        \* every WebSocket constructed so far, in construction order
    ws,             \* `let ws`: index into sockets, 0 = undefined
    sessionId,      \* `let sessionId`
    timers,         \* pending setTimeout(connectWebSocket, 3000) callbacks, FIFO
    pending,        \* start handlers suspended at `await getUserMedia`, each
                    \* named by the socket it constructed
    recorders,      \* every MediaRecorder constructed so far (with its stream)
    mediaRecorder,  \* `let mediaRecorder`: index into recorders, 0 = undefined
    audioChunks,    \* `let audioChunks`
    startDisabled,  \* startRecordingBtn.disabled
    stopDisabled,   \* stopRecordingBtn.disabled
    speakerType,    \* speakerTypeSelect.value
    sent,           \* frames accepted by a transport, in sending order
    nextChunk,      \* id of the next non-empty capture chunk
    stopped,        \* history: how the last stop-intent since the last
                    \* start-intent was accepted ("no": none was)
    keywords,       \* `let keywords`: the ids of the cached keywords, in order
    store,          \* the ids of the keywords the backend holds
    fetches,        \* every fetch() of the keyword flows made so far
    nextId,         \* the id the backend gives to the next keyword created
    stale,          \* history: how many of the pending timers (the oldest
                    \* ones) were armed before the latest start-intent or
                    \* accepted stop-intent
    transcriptionDisplay,  \* the log: the placeholder or the rendered lines
    alertDisplay,   \* the alert area: the placeholder and the alert boxes
    received        \* history: every inbound message delivered, in arrival
                    \* order; a message is named by its position here

vars == <<sockets, ws, sessionId, timers, pending, recorders, mediaRecorder,
          audioChunks, startDisabled, stopDisabled, speakerType, sent,
          nextChunk, stopped, keywords, store, fetches, nextId, stale,
          transcriptionDisplay, alertDisplay, received>>

\* the state of the inbound message flow
displayVars == <<transcriptionDisplay, alertDisplay, received>>

\* the state of the keyword flows
keywordVars == <<keywords, store, fetches, nextId>>

\* ------------------------------------------------------------- WebSocket
\* new WebSocket(url): readyState CONNECTING.  sid is the SessionIdentity in
\* the url; fail: the connection has been failed, its close will not be clean.
NewSocket(sid) == [rs |-> "CONNECTING", sid |-> sid, fail |-> FALSE]

\* ws.readyState === WebSocket.OPEN, with the `ws &&` test in front of it
IsOpen(socks, w) == w # 0 /\ socks[w].rs = "OPEN"

\* WebSocket.close(): CONNECTING -> CLOSING and the connection is failed
\* (its close event will not be clean); OPEN -> CLOSING, the closing
\* handshake starts; CLOSING and CLOSED: nothing.
WsClose(socks, w) ==
    IF w = 0 THEN socks
    ELSE IF socks[w].rs = "CONNECTING"
         THEN [socks EXCEPT ![w].rs = "CLOSING", ![w].fail = TRUE]
    ELSE IF socks[w].rs = "OPEN"
         THEN [socks EXCEPT ![w].rs = "CLOSING"]
    ELSE socks

\* WebSocket.send(data): transmitted when OPEN; discarded when CLOSING or
\* CLOSED; throws InvalidStateError when CONNECTING (nothing is transmitted).
WsSend(socks, w, snt, msg) ==
    IF IsOpen(socks, w)
    THEN Append(snt, [sock |-> w, type |-> msg.type,
                      speaker_type |-> msg.speaker_type, chunk |-> msg.chunk])
    ELSE snt

\* JSON.stringify({type: 'set_speaker_type', speaker_type: v}) and a binary frame
ControlMsg(v) == [type |-> "set_speaker_type", speaker_type |-> v, chunk |-> 0]
AudioMsg(c)   == [type |-> "audio", speaker_type |-> "", chunk |-> c]

\* generateSessionId, lines 304-306: 'session_' and 22 random base-36 digits.
\* Modelled as a value that differs from every value returned before (last
\* is the value returned by the previous call); a repeated random value is
\* not modelled.
\* Faulty variant of the start handler's draw: after the first attempt the
\* identity in use is kept.
generateSessionIdKept(last) == IF last = 0 THEN 1 ELSE IF last = 1 THEN 2 ELSE last
generateSessionId(last) == last + 1

\* ------------------------------------------------------- connectWebSocket
\* lines 23-27: the url is built from the CURRENT value of sessionId, and the
\* new socket is assigned to the shared variable ws.
connectWebSocket(socks, sid) == Append(socks, NewSocket(sid))

\* Faulty variants of ws.onopen: one that announces nothing, one that also
\* re-sends the chunks kept in audioChunks.
onopenMute(socks, w, snt, v, chunks) == snt
onopenFlush(socks, w, snt, v, chunks) ==
    LET F[i \in 0..Len(chunks)] ==
          IF i = 0 THEN WsSend(socks, w, snt, ControlMsg(v))
          ELSE WsSend(socks, w, F[i - 1], AudioMsg(chunks[i]))
    IN  F[Len(chunks)]
\* ws.onopen, lines 29-32: one send of the announcement through the shared
\* variable ws (not through the socket that opened).  v is the selected
\* speaker type; audioChunks (chunks) is not read.
onopen(socks, w, snt, v, chunks) ==
    WsSend(socks, w, snt, ControlMsg(v))

\* Faulty variant of ws.onclose: two timers for one close.
oncloseTwice(tm, wasClean, sid) ==
    IF ~wasClean THEN Append(Append(tm, sid), sid) ELSE tm
\* ws.onclose, lines 45-51: a close that was not clean arms one timer.
\* A timer holds, as history, the SessionIdentity of the closed connection.
onclose(tm, wasClean, sid) ==
    IF ~wasClean THEN Append(tm, sid) ELSE tm

\* ws.onerror, lines 53-56: closes whatever the shared variable ws holds.
onerror(socks, w) == WsClose(socks, w)

\* --------------------------------------------------------- MediaRecorder
NewRecorder == [state |-> "recording", tracks |-> "live", stopping |-> FALSE]

IsRecording(recs, r) == r # 0 /\ recs[r].state = "recording"

\* Faulty variant of mediaRecorder.ondataavailable: the chunk is sent again
\* to make up for a possible loss.
ondataavailableSentTwice(socks, w, snt, c) ==
    WsSend(socks, w, WsSend(socks, w, snt, AudioMsg(c)), AudioMsg(c))
\* mediaRecorder.ondataavailable, lines 82-95, for a chunk with size > 0
ondataavailableSent(socks, w, snt, c) ==
    IF IsOpen(socks, w) THEN WsSend(socks, w, snt, AudioMsg(c)) ELSE snt

\* ------------------------------------------------------------- keywords
\* The backend of the keyword flows, as the interface of the specification
\* describes it: list returns the stored keywords, create stores a keyword
\* under a new id and returns it, delete removes the keyword of an id or
\* fails.  It holds one keyword when the page is loaded.
InitialStore == {1}
InitialNextId == 2

\* the ids of the cache
CachedIds(kws) == {kws[i] : i \in 1..Len(kws)}

\* the stored ids as the array a list response carries
RECURSIVE ListBody(_)
ListBody(S) ==
    IF S = {} THEN <<>>
    ELSE LET x == CHOOSE y \in S : \A z \in S : y <= z
         IN  <<x>> \o ListBody(S \ {x})

\* a fetch(): kind is the request, id the keyword it names (delete) or the
\* one the backend made (create), body the array of a list response.
\* phase: "sent", then "ok" or "failed" (a response with that status is on
\* its way), or "lost" (fetch rejects), then "done" (the handler has run).
Fetch(kind, id) == [kind |-> kind, id |-> id, phase |-> "sent", body |-> <<>>]

\* loadKeywords, lines 226-228: fetch('/api/keywords/')
loadKeywords == Fetch("list", 0)

\* keywords.filter(kw => kw.id !== parseInt(keywordId)), line 290
RECURSIVE Filter(_, _)
Filter(kws, id) ==
    IF kws = <<>> THEN <<>>
    ELSE IF Head(kws) = id THEN Filter(Tail(kws), id)
    ELSE <<Head(kws)>> \o Filter(Tail(kws), id)

\* The continuation of a fetch whose response arrived or which rejected:
\* lines 229-238 (list), 265-277 (create), 289-298 (delete).  Only a
\* response with response.ok changes the cache.
onResponse(kws, f) ==
    IF f.phase # "ok" THEN kws
    ELSE IF f.kind = "list" THEN f.body
    ELSE IF f.kind = "create" THEN Append(kws, f.id)
    ELSE Filter(kws, f.id)

\* -------------------------------------------------------------- displays
\* innerHTML = '<p class="text-gray-500">...</p>', lines 115 and 116: the
\* placeholder alone
TranscriptionPlaceholder == [placeholder |-> TRUE, lines |-> <<>>]
AlertPlaceholder == [placeholder |-> TRUE, alerts |-> <<>>]

\* displayTranscription, lines 187-198: when the placeholder is there the
\* display is emptied; the line of message id is appended.  (A rendered line
\* has class text-indigo-700 or text-gray-700, never text-gray-500.)
displayTranscription(disp, id) ==
    [placeholder |-> FALSE,
     lines |-> Append(IF disp.placeholder THEN <<>> ELSE disp.lines, id)]

\* displayAlert, lines 210-218: the box of message id is put in front of
\* whatever the alert area holds.
displayAlert(disp, id) == [disp EXCEPT !.alerts = <<id>> \o disp.alerts]

\* Faulty variant of ws.onmessage: whatever is not an alert is rendered as
\* a transcription.
onmessageTranscriptionAny(disp, tag, id) ==
    IF tag # "alert" THEN displayTranscription(disp, id) ELSE disp
\* ws.onmessage, lines 34-43: the branch of the transcription display
onmessageTranscription(disp, tag, id) ==
    IF tag = "transcription" THEN displayTranscription(disp, id) ELSE disp
\* ws.onmessage, lines 34-43: the branch of the alert area
onmessageAlert(disp, tag, id) ==
    IF tag = "alert" THEN displayAlert(disp, id) ELSE disp

\* ----------------------------------------------------------------- Init
Init ==
    /\ sockets = <<>>
    /\ ws = 0
    /\ sessionId = generateSessionId(0)  \* line 19
    /\ timers = <<>>
    /\ pending = {}
    /\ recorders = <<>>
    /\ mediaRecorder = 0
    /\ audioChunks = <<>>
    /\ startDisabled = FALSE
    /\ stopDisabled \in BOOLEAN          \* set by the page markup
    /\ speakerType = "rep"               \* the select's first option
    /\ sent = <<>>
    /\ nextChunk = 1
    /\ stopped = "no"
    /\ keywords = <<>>                   \* line 20
    /\ store = InitialStore
    /\ nextId = InitialNextId
    /\ fetches = <<loadKeywords>>        \* line 309
    /\ stale = 0
    /\ transcriptionDisplay = TranscriptionPlaceholder  \* the page markup
    /\ alertDisplay = AlertPlaceholder
    /\ received = <<>>

\* ------------------------------------------------------- start-intent
\* start-intents handled so far (each drew one SessionIdentity after the one
\* of line 19) and sockets constructed by a timer
Starts == sessionId - 1
Reconnects == Len(sockets) - Starts

\* startRecordingBtn click, lines 60-66: a fresh sessionId, connectWebSocket,
\* then the handler suspends at `await getUserMedia`.  A disabled button
\* dispatches no click.
StartClick ==
    /\ ~startDisabled
    /\ Starts < MaxStarts
    /\ sessionId' = generateSessionId(sessionId)
    /\ sockets' = connectWebSocket(sockets, sessionId')
    /\ ws' = Len(sockets) + 1
    /\ pending' = pending \cup {Len(sockets) + 1}
    /\ stopped' = "no"
    /\ stale' = Len(timers)
    /\ UNCHANGED <<keywordVars, displayVars>>
    /\ UNCHANGED <<timers, recorders, mediaRecorder, audioChunks,
                   startDisabled, stopDisabled, speakerType, sent, nextChunk>>

\* getUserMedia resolves for the start handler that made socket p, lines
\* 67-116: a MediaRecorder on the new stream is stored in mediaRecorder and
\* started; the buttons flip.
GetUserMediaGrant(p) ==
    /\ p \in pending
    /\ Len(recorders) < MaxRecorders
    /\ pending' = pending \ {p}
    /\ recorders' = Append(recorders, NewRecorder)
    /\ mediaRecorder' = Len(recorders) + 1
    /\ startDisabled' = TRUE
    /\ stopDisabled' = FALSE
    /\ transcriptionDisplay' = TranscriptionPlaceholder
    /\ alertDisplay' = AlertPlaceholder
    /\ UNCHANGED <<keywordVars, stale, received>>
    /\ UNCHANGED <<sockets, ws, sessionId, timers, audioChunks, speakerType,
                   sent, nextChunk, stopped>>

\* getUserMedia rejects (or is missing), lines 118-124: only the buttons change.
GetUserMediaReject(p) ==
    /\ p \in pending
    /\ pending' = pending \ {p}
    /\ startDisabled' = FALSE
    /\ stopDisabled' = TRUE
    /\ UNCHANGED <<keywordVars, stale, displayVars>>
    /\ UNCHANGED <<sockets, ws, sessionId, timers, recorders, mediaRecorder,
                   audioChunks, speakerType, sent, nextChunk, stopped>>

\* ------------------------------------------------------ transport events
\* The connection of socket s is established: readyState OPEN, then ws.onopen.
WsOpen(s) ==
    /\ s \in 1..Len(sockets)
    /\ sockets[s].rs = "CONNECTING"
    /\ LET opened == [sockets EXCEPT ![s].rs = "OPEN"]
       IN  /\ sockets' = opened
           /\ sent' = onopen(opened, ws, sent, speakerType, audioChunks)
    /\ UNCHANGED <<keywordVars, stale, displayVars>>
    /\ UNCHANGED <<ws, sessionId, timers, pending, recorders, mediaRecorder,
                   audioChunks, startDisabled, stopDisabled, speakerType,
                   nextChunk, stopped>>

\* The connection of socket s is lost or failed: readyState CLOSED, an error
\* event when the connection was failed (always so for a socket closed while
\* connecting), then the close event with wasClean false.
WsFail(s) ==
    /\ s \in 1..Len(sockets)
    /\ sockets[s].rs \in {"CONNECTING", "OPEN", "CLOSING"}
    /\ \E err \in BOOLEAN :
          /\ sockets[s].fail => err
          /\ LET closed == [sockets EXCEPT ![s].rs = "CLOSED"]
             IN  sockets' = IF err THEN onerror(closed, ws) ELSE closed
    /\ timers' = onclose(timers, FALSE, sockets[s].sid)
    /\ UNCHANGED <<keywordVars, stale, displayVars>>
    /\ UNCHANGED <<ws, sessionId, pending, recorders, mediaRecorder,
                   audioChunks, startDisabled, stopDisabled, speakerType,
                   sent, nextChunk, stopped>>

\* The server starts the closing handshake on an open socket: CLOSING, no event.
WsServerClose(s) ==
    /\ s \in 1..Len(sockets)
    /\ sockets[s].rs = "OPEN"
    /\ sockets' = [sockets EXCEPT ![s].rs = "CLOSING"]
    /\ UNCHANGED <<keywordVars, stale, displayVars>>
    /\ UNCHANGED <<ws, sessionId, timers, pending, recorders, mediaRecorder,
                   audioChunks, startDisabled, stopDisabled, speakerType,
                   sent, nextChunk, stopped>>

\* The closing handshake of socket s completes: CLOSED, close event with
\* wasClean true.
WsCleanClose(s) ==
    /\ s \in 1..Len(sockets)
    /\ sockets[s].rs = "CLOSING"
    /\ ~sockets[s].fail
    /\ sockets' = [sockets EXCEPT ![s].rs = "CLOSED"]
    /\ timers' = onclose(timers, TRUE, sockets[s].sid)
    /\ UNCHANGED <<keywordVars, stale, displayVars>>
    /\ UNCHANGED <<ws, sessionId, pending, recorders, mediaRecorder,
                   audioChunks, startDisabled, stopDisabled, speakerType,
                   sent, nextChunk, stopped>>

\* The oldest reconnection timer fires, line 49: connectWebSocket().
TimerFire ==
    /\ timers # <<>>
    /\ Reconnects < MaxReconnects
    /\ sockets' = connectWebSocket(sockets, sessionId)
    /\ ws' = Len(sockets) + 1
    /\ timers' = Tail(timers)
    /\ stale' = IF stale > 0 THEN stale - 1 ELSE 0
    /\ UNCHANGED <<keywordVars, displayVars>>
    /\ UNCHANGED <<sessionId, pending, recorders, mediaRecorder, audioChunks,
                   startDisabled, stopDisabled, speakerType, sent, nextChunk,
                   stopped>>

\* -------------------------------------------------------- capture events
\* A periodic dataavailable event of recorder r (start(1000)) with size > 0,
\* lines 82-95: pushed to audioChunks, and sent when the shared ws is open,
\* otherwise a warning is logged and the chunk is gone.  (An event with
\* size 0 is only logged: it changes nothing.)
DataAvailable(r) ==
    /\ r \in 1..Len(recorders)
    /\ recorders[r].state = "recording"
    /\ nextChunk <= MaxChunks
    /\ audioChunks' = Append(audioChunks, nextChunk)
    /\ sent' = ondataavailableSent(sockets, ws, sent, nextChunk)
    /\ nextChunk' = nextChunk + 1
    /\ UNCHANGED <<keywordVars, stale, displayVars>>
    /\ UNCHANGED <<sockets, ws, sessionId, timers, pending, recorders,
                   mediaRecorder, startDisabled, stopDisabled, speakerType,
                   stopped>>

\* The task MediaRecorder.stop() (or a recorder error) queued for recorder r:
\* a last dataavailable event with what was gathered since the previous one
\* (size 0 or more), then the stop event, lines 97-101: audioChunks is
\* emptied and the stream's tracks are stopped.
RecorderStopTask(r) ==
    /\ r \in 1..Len(recorders)
    /\ recorders[r].stopping
    /\ \E size \in 0..1 :
          IF size = 0
          THEN UNCHANGED <<sent, nextChunk>>
          ELSE /\ nextChunk <= MaxChunks
               /\ sent' = ondataavailableSent(sockets, ws, sent, nextChunk)
               /\ nextChunk' = nextChunk + 1
    /\ audioChunks' = <<>>
    /\ recorders' = [recorders EXCEPT ![r].stopping = FALSE, ![r].tracks = "ended"]
    /\ UNCHANGED <<keywordVars, stale, displayVars>>
    /\ UNCHANGED <<sockets, ws, sessionId, timers, pending, mediaRecorder,
                   startDisabled, stopDisabled, speakerType, stopped>>

\* A MediaRecorder error on recorder r: the recorder becomes inactive and its
\* stop task is queued; mediaRecorder.onerror, lines 103-107, only logs.
RecorderError(r) ==
    /\ r \in 1..Len(recorders)
    /\ recorders[r].state = "recording"
    /\ recorders' = [recorders EXCEPT ![r].state = "inactive", ![r].stopping = TRUE]
    /\ UNCHANGED <<keywordVars, stale, displayVars>>
    /\ UNCHANGED <<sockets, ws, sessionId, timers, pending, mediaRecorder,
                   audioChunks, startDisabled, stopDisabled, speakerType,
                   sent, nextChunk, stopped>>

\* --------------------------------------------------------- stop-intent
\* Faulty variant of the test of line 128: the recorder's state is not read.
stopGuardLoose(recs, r) == r # 0
\* the test of line 128
stopGuard(recs, r) == IsRecording(recs, r)

\* stopRecordingBtn click, lines 127-141.  When the test fails the handler
\* only logs.
StopClick ==
    /\ ~stopDisabled
    /\ IF stopGuard(recorders, mediaRecorder)
       THEN /\ recorders' = [recorders EXCEPT ![mediaRecorder].state = "inactive",
                                              ![mediaRecorder].stopping = TRUE]
            /\ sockets' = WsClose(sockets, ws)
            /\ startDisabled' = FALSE
            /\ stopDisabled' = TRUE
            /\ stopped' = IF IsOpen(sockets, ws) THEN "streaming" ELSE "other"
            /\ stale' = Len(timers)
       ELSE UNCHANGED <<recorders, sockets, startDisabled, stopDisabled,
                        stopped, stale>>
    /\ UNCHANGED <<keywordVars, displayVars>>
    /\ UNCHANGED <<ws, sessionId, timers, pending, mediaRecorder,
                   audioChunks, speakerType, sent, nextChunk>>

\* ------------------------------------------------------ speaker type
\* Faulty variant of the change handler: nothing is sent.
changeSentNever(socks, w, snt, v) == snt
\* speakerTypeSelect change handler, lines 143-148
changeSent(socks, w, snt, v) ==
    IF IsOpen(socks, w) THEN WsSend(socks, w, snt, ControlMsg(v)) ELSE snt

\* The selection changes to v, then the change event is handled.
SpeakerTypeChange(v) ==
    /\ v # speakerType
    /\ Len(sent) < MaxSent
    /\ speakerType' = v
    /\ sent' = changeSent(sockets, ws, sent, v)
    /\ UNCHANGED <<keywordVars, stale, displayVars>>
    /\ UNCHANGED <<sockets, ws, sessionId, timers, pending, recorders,
                   mediaRecorder, audioChunks, startDisabled, stopDisabled,
                   nextChunk, stopped>>

\* ---------------------------------------------------------- keyword flows
\* the session state, which the keyword flows leave alone
sessionVars == <<sockets, ws, sessionId, timers, pending, recorders,
                 mediaRecorder, audioChunks, startDisabled, stopDisabled,
                 speakerType, sent, nextChunk, stopped, stale,
                 transcriptionDisplay, alertDisplay, received>>

\* addKeywordBtn click with a word in the input, lines 255-264
AddKeywordClick ==
    /\ Len(fetches) < 1 + MaxRequests
    /\ fetches' = Append(fetches, Fetch("create", 0))
    /\ UNCHANGED <<keywords, store, nextId>>
    /\ UNCHANGED sessionVars

\* click on the delete button renderKeywords made for the cached keyword
\* id, lines 283-288
DeleteKeywordClick(id) ==
    /\ id \in CachedIds(keywords)
    /\ Len(fetches) < 1 + MaxRequests
    /\ fetches' = Append(fetches, Fetch("delete", id))
    /\ UNCHANGED <<keywords, store, nextId>>
    /\ UNCHANGED sessionVars

\* The backend serves request i.
BackendServe(i) ==
    /\ fetches[i].phase = "sent"
    /\ IF fetches[i].kind = "list"
       THEN /\ fetches' = [fetches EXCEPT ![i].phase = "ok",
                                          ![i].body = ListBody(store)]
            /\ UNCHANGED <<store, nextId>>
       ELSE IF fetches[i].kind = "create"
       THEN /\ fetches' = [fetches EXCEPT ![i].phase = "ok", ![i].id = nextId]
            /\ store' = store \cup {nextId}
            /\ nextId' = nextId + 1
       ELSE IF fetches[i].id \in store
       THEN /\ fetches' = [fetches EXCEPT ![i].phase = "ok"]
            /\ store' = store \ {fetches[i].id}
            /\ UNCHANGED nextId
       ELSE /\ fetches' = [fetches EXCEPT ![i].phase = "failed"]
            /\ UNCHANGED <<store, nextId>>
    /\ UNCHANGED keywords
    /\ UNCHANGED sessionVars

\* The backend refuses request i (a status that is not ok): nothing is stored.
BackendRefuse(i) ==
    /\ fetches[i].phase = "sent"
    /\ fetches' = [fetches EXCEPT ![i].phase = "failed"]
    /\ UNCHANGED <<keywords, store, nextId>>
    /\ UNCHANGED sessionVars

\* The network fails request i before its response is received, whether or
\* not the backend has served it: fetch rejects.
NetworkError(i) ==
    /\ fetches[i].phase \in {"sent", "ok", "failed"}
    /\ fetches' = [fetches EXCEPT ![i].phase = "lost"]
    /\ UNCHANGED <<keywords, store, nextId>>
    /\ UNCHANGED sessionVars

\* The continuation of fetch i runs (its response arrived, or it rejected).
FetchSettled(i) ==
    /\ fetches[i].phase \in {"ok", "failed", "lost"}
    /\ keywords' = onResponse(keywords, fetches[i])
    /\ fetches' = [fetches EXCEPT ![i].phase = "done"]
    /\ UNCHANGED <<store, nextId>>
    /\ UNCHANGED sessionVars

\* -------------------------------------------------------- inbound messages
\* the session state that no inbound message touches
transportVars == <<sockets, ws, sessionId, timers, pending, recorders,
                   mediaRecorder, audioChunks, startDisabled, stopDisabled,
                   speakerType, sent, nextChunk, stopped, stale>>

\* the audio frames transmitted on socket s: the backend derives
\* transcriptions and alerts from the audio of a connection
HasAudio(snt, s) == \E i \in 1..Len(snt) : snt[i].sock = s /\ snt[i].type = "audio"

\* A message with data.type = tag is delivered on the open socket s:
\* ws.onmessage of that socket, lines 34-43.
WsMessage(s, tag) ==
    /\ s \in 1..Len(sockets)
    /\ sockets[s].rs = "OPEN"
    /\ tag \in {"transcription", "alert"} => HasAudio(sent, s)
    /\ Len(received) < MaxMessages
    /\ received' = Append(received, [sock |-> s, tag |-> tag])
    /\ transcriptionDisplay' =
         onmessageTranscription(transcriptionDisplay, tag, Len(received) + 1)
    /\ alertDisplay' = onmessageAlert(alertDisplay, tag, Len(received) + 1)
    /\ UNCHANGED keywordVars
    /\ UNCHANGED transportVars

\* The animation of the alert box of message id ends: alertDiv.remove(),
\* lines 219-221.
AlertAnimationEnd(id) ==
    /\ \E i \in 1..Len(alertDisplay.alerts) : alertDisplay.alerts[i] = id
    /\ alertDisplay' = [alertDisplay EXCEPT !.alerts = Filter(alertDisplay.alerts, id)]
    /\ UNCHANGED <<transcriptionDisplay, received>>
    /\ UNCHANGED keywordVars
    /\ UNCHANGED transportVars

\* ---------------------------------------------------------------- Next
\* The page as served: the select offers the enumerated speaker types.
Next ==
    \/ StartClick
    \/ \E p \in pending : GetUserMediaGrant(p)
    \/ \E p \in pending : GetUserMediaReject(p)
    \/ \E s \in 1..Len(sockets) : WsOpen(s)
    \/ \E s \in 1..Len(sockets) : WsFail(s)
    \/ \E s \in 1..Len(sockets) : WsServerClose(s)
    \/ \E s \in 1..Len(sockets) : WsCleanClose(s)
    \/ TimerFire
    \/ \E r \in 1..Len(recorders) : DataAvailable(r)
    \/ \E r \in 1..Len(recorders) : RecorderStopTask(r)
    \/ \E r \in 1..Len(recorders) : RecorderError(r)
    \/ StopClick
    \/ \E v \in SpeakerTypes : SpeakerTypeChange(v)

Spec == Init /\ [][Next]_vars

\* A session with a dependable network and device, whose speaker-type
\* control may hold any string: the announcements of values outside the
\* enumerated set are studied here.
NextAnyValue ==
    \/ StartClick
    \/ \E p \in pending : GetUserMediaGrant(p)
    \/ \E s \in 1..Len(sockets) : WsOpen(s)
    \/ \E s \in 1..Len(sockets) : WsCleanClose(s)
    \/ \E r \in 1..Len(recorders) : DataAvailable(r)
    \/ \E r \in 1..Len(recorders) : RecorderStopTask(r)
    \/ StopClick
    \/ \E v \in SelectValues : SpeakerTypeChange(v)

SpecAnyValue == Init /\ [][NextAnyValue]_vars

\* The keyword flows of the page, with no recording going on.
NextKeywords ==
    \/ AddKeywordClick
    \/ \E id \in CachedIds(keywords) : DeleteKeywordClick(id)
    \/ \E i \in 1..Len(fetches) : BackendServe(i)
    \/ \E i \in 1..Len(fetches) : BackendRefuse(i)
    \/ \E i \in 1..Len(fetches) : NetworkError(i)
    \/ \E i \in 1..Len(fetches) : FetchSettled(i)

SpecKeywords == Init /\ [][NextKeywords]_vars

\* A session with a dependable device, with the messages the backend sends
\* on its connections; it is followed up to the firing of the first
\* reconnection timer.
NextInbound ==
    \/ StartClick
    \/ \E p \in pending : GetUserMediaGrant(p)
    \/ \E s \in 1..Len(sockets) : WsOpen(s)
    \/ \E s \in 1..Len(sockets) : WsFail(s)
    \/ \E s \in 1..Len(sockets) : WsCleanClose(s)
    \/ \E r \in 1..Len(recorders) : DataAvailable(r)
    \/ \E r \in 1..Len(recorders) : RecorderStopTask(r)
    \/ StopClick
    \/ \E s \in 1..Len(sockets) : \E tag \in Tags : WsMessage(s, tag)
    \/ \E id \in 1..Len(received) : AlertAnimationEnd(id)

SpecInbound == Init /\ [][NextInbound]_vars

\* ================================================================ claims
\* The session states of the specification, read off the program state.
Alive(socks, s) == socks[s].rs \in {"CONNECTING", "OPEN"}
Streaming == IsOpen(sockets, ws) /\ IsRecording(recorders, mediaRecorder)
Closed ==
    /\ ws # 0 /\ sockets[ws].rs = "CLOSED"
    /\ mediaRecorder # 0
    /\ recorders[mediaRecorder].state = "inactive"
    /\ recorders[mediaRecorder].tracks = "ended"

\* the positions in snt of the frames transmitted on socket s
FramesOn(snt, s) == {i \in 1..Len(snt) : snt[i].sock = s}
ControlsOn(snt, s) ==
    {i \in FramesOn(snt, s) : snt[i].type = "set_speaker_type"}
Max(S) == CHOOSE x \in S : \A y \in S : y <= x
Min(S) == CHOOSE x \in S : \A y \in S : x <= y

\* C1: once a stop-intent has been accepted, no connection is constructed
\* (connectWebSocket is not called) until the next start-intent.
C1_NoReconnectAfterStop ==
    [][(stopped # "no" /\ stopped' # "no") => Len(sockets') = Len(sockets)]_vars

\* C2: every close that is not clean arms exactly one timer, a clean close
\* arms none, nothing else arms a timer, and a timer leaves the queue only by
\* firing, which constructs exactly one connection.
C2_OneReconnectPerAbnormalClose ==
    [][/\ \A s \in 1..Len(sockets) :
            /\ WsFail(s) => timers' = Append(timers, sockets[s].sid)
            /\ WsCleanClose(s) => timers' = timers
       /\ Len(timers') > Len(timers) =>
            \E s \in 1..Len(sockets) :
                /\ sockets[s].rs # "CLOSED" /\ sockets'[s].rs = "CLOSED"
                /\ timers' = Append(timers, sockets[s].sid)
       /\ Len(timers') < Len(timers) =>
            /\ timers' = Tail(timers)
            /\ Len(sockets') = Len(sockets) + 1
            /\ sockets'[Len(sockets')].rs = "CONNECTING"
            /\ ws' = Len(sockets')
      ]_vars

\* C2 witness: a connection that carried audio was lost while the capture
\* kept recording, its timer has fired and the one reconnection is open.
C2_Witness ==
    /\ Reconnects = 1 /\ timers = <<>>
    /\ sockets[1].rs = "CLOSED"
    /\ \E i \in FramesOn(sent, 1) : sent[i].type = "audio"
    /\ Len(recorders) = 1 /\ IsRecording(recorders, mediaRecorder)
    /\ Len(sockets) = 2 /\ IsOpen(sockets, ws)

\* C3: the connection a timer constructs carries the SessionIdentity of the
\* connection whose close armed that timer.
C3_ReconnectKeepsIdentity ==
    [][Len(timers') < Len(timers) =>
         sockets'[Len(sockets')].sid = Head(timers)]_vars

\* C4: an audio frame is transmitted only in the step that produces its
\* chunk, only when ws is open at that moment, and on ws; frames already
\* transmitted stay; a chunk produced while ws is not open transmits nothing
\* (so, chunk ids growing, it is never transmitted later) and every recorder
\* that was recording still is.
C4_ChunkSentOnlyWhenOpen ==
    [][/\ Len(sent') >= Len(sent)
       /\ SubSeq(sent', 1, Len(sent)) = sent
       /\ \A i \in (Len(sent) + 1)..Len(sent') :
            sent'[i].type = "audio" =>
              /\ IsOpen(sockets, ws)
              /\ sent'[i].sock = ws
              /\ sent'[i].chunk = nextChunk
              /\ nextChunk' = nextChunk + 1
       /\ (nextChunk' # nextChunk /\ ~IsOpen(sockets, ws)) =>
            /\ sent' = sent
            /\ \A r \in 1..Len(recorders) :
                 recorders[r].state = "recording" =>
                   recorders'[r].state = "recording"
      ]_vars

\* C4 witness: chunk 1 was dropped, the transport was reconnected with the
\* same identity, and chunk 2 went out on the new connection.
C4_Witness ==
    /\ nextChunk = 3
    /\ \A i \in 1..Len(sent) : sent[i].chunk # 1
    /\ Len(sockets) = 2 /\ sockets[2].sid = sockets[1].sid
    /\ \E i \in 1..Len(sent) : sent[i].chunk = 2 /\ sent[i].sock = 2

\* C5: when getUserMedia rejects, the connection its start-intent
\* constructed is neither connecting nor open and has carried no frame.
C5_DeniedStartLeavesNoTransport ==
    [][\A p \in pending :
         GetUserMediaReject(p) =>
           /\ ~Alive(sockets', p)
           /\ FramesOn(sent', p) = {}]_vars

\* C6: when the connection held by ws opens, exactly the announcement of the
\* speaker type selected at that moment is transmitted on it; and on every
\* connection the first frame transmitted is an announcement (no audio
\* frame precedes it).
C6_AnnouncementFirst ==
    [][/\ \A s \in 1..Len(sockets) :
            (s = ws /\ sockets[s].rs = "CONNECTING" /\ sockets'[s].rs = "OPEN") =>
              sent' = Append(sent, [sock |-> s, type |-> "set_speaker_type",
                                    speaker_type |-> speakerType, chunk |-> 0])
       /\ \A s \in 1..Len(sockets') :
            FramesOn(sent', s) # {} =>
              sent'[Min(FramesOn(sent', s))].type = "set_speaker_type"
      ]_vars

\* C6 witness: a reconnected connection carries its announcement, then audio.
C6_Witness ==
    /\ Len(sockets) = 2 /\ sockets[2].sid = sockets[1].sid
    /\ \E i, j \in FramesOn(sent, 2) :
         /\ i < j
         /\ sent[i].type = "set_speaker_type"
         /\ sent[j].type = "audio"

\* C7: a change of the selection while ws is open transmits the announcement
\* of the new value on ws, a change while ws is not open transmits nothing;
\* and whenever ws is open, the last announcement transmitted on it carries
\* the selected speaker type.
C7_AnnouncedTypeIsCurrent ==
    /\ [](IsOpen(sockets, ws) =>
            /\ ControlsOn(sent, ws) # {}
            /\ sent[Max(ControlsOn(sent, ws))].speaker_type = speakerType)
    /\ [][speakerType' # speakerType =>
            IF IsOpen(sockets, ws)
            THEN sent' = Append(sent, [sock |-> ws, type |-> "set_speaker_type",
                                       speaker_type |-> speakerType', chunk |-> 0])
            ELSE sent' = sent]_vars

\* C7 witness: a change made before the transport opened was announced at
\* the open, and a change made while it was open was announced again.
C7_Witness ==
    /\ IsOpen(sockets, ws)
    /\ Len(sent) = 2
    /\ sent[1].sock = ws /\ sent[1].speaker_type = "prospect"
    /\ sent[2].sock = ws /\ sent[2].speaker_type = "rep"

\* C8: no announcement carries a value outside the enumerated speaker types.
C8_InvalidSpeakerTypeNotSent ==
    \A i \in 1..Len(sent) :
        sent[i].type = "set_speaker_type" => sent[i].speaker_type \in SpeakerTypes

\* C9 as stated: a stop-intent handled while the session is not Streaming
\* (transport open and capture recording) changes neither the transport,
\* the capture, the timers nor the buttons.
C9_StopNoOpUnlessStreaming ==
    [][(StopClick /\ ~Streaming) =>
         UNCHANGED <<sockets, ws, recorders, mediaRecorder, timers,
                     startDisabled, stopDisabled>>]_vars

\* C9 as amended: a stop-intent handled while the current capture is not
\* recording (none yet, or inactive) changes nothing.
C9_StopNoOpUnlessRecording ==
    [][(StopClick /\ ~IsRecording(recorders, mediaRecorder)) =>
         UNCHANGED vars]_vars

\* C9 witness: the stop button is enabled and the current capture is
\* inactive (a recorder error ended it): a stop-intent is handled there.
C9_Witness ==
    /\ ~stopDisabled
    /\ mediaRecorder # 0
    /\ recorders[mediaRecorder].state = "inactive"
    /\ ws # 0 /\ Alive(sockets, ws)

\* C10: once the session is Closed after a stop-intent accepted while
\* Streaming, it stays Closed until the next start-intent.
C10_StaysClosedAfterStop ==
    [][(stopped = "streaming" /\ Closed /\ stopped' = "streaming") => Closed']_vars

\* Idle, read off the program state: no transport connecting or open, no
\* capture recording, the start button usable.
Idle ==
    /\ \A s \in 1..Len(sockets) : ~Alive(sockets, s)
    /\ \A r \in 1..Len(recorders) : recorders[r].state # "recording"
    /\ ~startDisabled

\* the failure events: device access refused, a capture error, a transport
\* lost or failed
FailureStep ==
    \/ \E p \in pending : GetUserMediaReject(p)
    \/ \E r \in 1..Len(recorders) : RecorderError(r)
    \/ \E s \in 1..Len(sockets) : WsFail(s)

\* capture dead, start unusable, stop without effect, and nothing pending
\* that would change it (no start handler suspended, no timer)
Stranded ==
    /\ startDisabled
    /\ ~stopGuard(recorders, mediaRecorder)
    /\ \A r \in 1..Len(recorders) : recorders[r].state # "recording"
    /\ pending = {}
    /\ timers = <<>>

\* C11: every failure event leaves the session Idle or with a reconnection
\* timer pending, and the session is never stranded (capture dead, start
\* unusable, stop without effect).
C11_FailureLeavesDefinedState ==
    /\ [][FailureStep => (Idle' \/ timers' # <<>>)]_vars
    /\ [](~Stranded)

\* C12: every start-intent draws a SessionIdentity that differs from the
\* previous one and from the identity of every connection constructed
\* before, and the connection it constructs carries the new identity.
C12_FreshIdentityPerStart ==
    [][StartClick =>
         /\ sessionId' # sessionId
         /\ \A s \in 1..Len(sockets) : sockets[s].sid # sessionId'
         /\ Len(sockets') = Len(sockets) + 1
         /\ sockets'[Len(sockets')].sid = sessionId'
         /\ ws' = Len(sockets')]_vars

\* C12 witness: a first attempt was recorded and stopped (its capture and
\* its connection are finished), and a second start-intent has constructed
\* a connection with another identity.
C12_Witness ==
    /\ Len(sockets) = 2 /\ Len(recorders) = 1
    /\ sockets[1].rs = "CLOSED" /\ ~sockets[1].fail
    /\ recorders[1].state = "inactive" /\ recorders[1].tracks = "ended"
    /\ pending = {2} /\ ws = 2
    /\ sockets[2].sid = sessionId /\ sockets[2].sid # sockets[1].sid

\* the ids a delete request names whose continuation has not run yet
BeingDeleted ==
    {fetches[i].id : i \in {j \in 1..Len(fetches) :
                              /\ fetches[j].kind = "delete"
                              /\ fetches[j].phase # "done"}}

\* C13: every cached id is stored by the backend (or named by a delete
\* request that is still under way), and the cache changes only in the
\* continuation of a fetch whose response was ok.
C13_CacheSubsetOfStore ==
    /\ [](CachedIds(keywords) \subseteq (store \cup BeingDeleted))
    /\ [][keywords' # keywords =>
            \E i \in 1..Len(fetches) :
                fetches[i].phase = "ok" /\ fetches'[i].phase = "done"]_vars

\* C14: a timer armed before the latest start-intent or accepted
\* stop-intent constructs no connection when it fires.
C14_SupersededTimerOpensNothing ==
    [][(Len(timers') < Len(timers) /\ stale > 0) =>
         Len(sockets') = Len(sockets)]_vars

\* C15: no two pending timers were armed for the same SessionIdentity.
C15_OneTimerPerSession ==
    \A i, j \in 1..Len(timers) : i # j => timers[i] # timers[j]

\* C16: at most one connection is connecting or open, and when a connection
\* is constructed every earlier one is closed.
C16_OneTransportAlive ==
    /\ [](Cardinality({s \in 1..Len(sockets) : Alive(sockets, s)}) <= 1)
    /\ [][Len(sockets') > Len(sockets) =>
            \A s \in 1..Len(sockets) : sockets[s].rs = "CLOSED"]_vars

\* the positions in snt of the audio frames
AudioFrames(snt) == {i \in 1..Len(snt) : snt[i].type = "audio"}

\* C17: the chunks are numbered in production order (1 .. nextChunk - 1);
\* the audio frames transmitted, on whatever connection, carry produced
\* chunks in strictly increasing order: a subsequence of the production
\* sequence, no chunk twice.
C17_AudioInOrderAtMostOnce ==
    /\ \A i \in AudioFrames(sent) : sent[i].chunk \in 1..(nextChunk - 1)
    /\ \A i, j \in AudioFrames(sent) : i < j => sent[i].chunk < sent[j].chunk

\* C17 witness: chunk 1 went out on the first connection, the connection
\* was lost, and chunk 2 went out on the reconnection.
C17_Witness ==
    /\ Len(sockets) = 2 /\ sockets[2].sid = sockets[1].sid
    /\ \E i, j \in AudioFrames(sent) :
         /\ i < j
         /\ sent[i].sock = 1 /\ sent[i].chunk = 1
         /\ sent[j].sock = 2 /\ sent[j].chunk = 2

\* C18: a message whose tag is neither transcription nor alert changes
\* nothing but the record of its arrival: the displays, the connections
\* (the one it arrived on stays open, so later messages are delivered to
\* the same handler), the capture, the timers and the keyword cache stay.
C18_UnrecognizedTagIgnored ==
    [][\A s \in 1..Len(sockets) : \A tag \in Tags \ {"transcription", "alert"} :
         WsMessage(s, tag) =>
           /\ UNCHANGED <<transcriptionDisplay, alertDisplay>>
           /\ UNCHANGED transportVars
           /\ UNCHANGED keywordVars
           /\ sockets'[s].rs = "OPEN"]_vars

\* C18 witness: on one connection a message with an unknown tag arrived,
\* and the transcription that arrived after it is rendered.
C18_Witness ==
    /\ Len(received) = 2
    /\ received[1].tag = "unknown" /\ received[2].tag = "transcription"
    /\ received[1].sock = received[2].sock
    /\ transcriptionDisplay = [placeholder |-> FALSE, lines |-> <<2>>]

\* the rendered lines that came in on a connection of the attempt sid
AttemptLines(lines, recv, socks, sid) ==
    SelectSeq(lines, LAMBDA id : socks[recv[id].sock].sid = sid)

\* the transcription of the attempt sid delivered by the step to recv2, if any
NewAttemptLine(recv, recv2, socks, sid) ==
    IF /\ Len(recv2) = Len(recv) + 1
       /\ recv2[Len(recv2)].tag = "transcription"
       /\ socks[recv2[Len(recv2)].sock].sid = sid
    THEN <<Len(recv2)>>
    ELSE <<>>

\* C19: rendered lines are transcription events in arrival order and are
\* never shown together with the placeholder; and while the attempt lasts
\* (no new start-intent) the rendered lines of the attempt are those
\* rendered before, followed by the transcription the step delivered on a
\* connection of the attempt, if it delivered one: none is removed or moved.
C19_LogAppendOnlyWithinAttempt ==
    /\ [](/\ transcriptionDisplay.lines # <<>> => ~transcriptionDisplay.placeholder
          /\ \A i \in 1..Len(transcriptionDisplay.lines) :
               /\ transcriptionDisplay.lines[i] \in 1..Len(received)
               /\ received[transcriptionDisplay.lines[i]].tag = "transcription"
               /\ i > 1 => transcriptionDisplay.lines[i - 1] < transcriptionDisplay.lines[i])
    /\ [][sessionId' = sessionId =>
            AttemptLines(transcriptionDisplay'.lines, received', sockets', sessionId')
              = AttemptLines(transcriptionDisplay.lines, received, sockets, sessionId)
                  \o NewAttemptLine(received, received', sockets, sessionId)]_vars

\* the captures that are recording
Recording(recs) == {r \in 1..Len(recs) : recs[r].state = "recording"}

\* C20: at most one capture is recording, and an accepted stop-intent
\* leaves none recording and every device track stopped or about to be (the
\* stop task of its recorder is queued).
C20_OneCaptureAndStopReleases ==
    /\ [](Cardinality(Recording(recorders)) <= 1)
    /\ [][(StopClick /\ stopGuard(recorders, mediaRecorder)) =>
            /\ Recording(recorders') = {}
            /\ \A r \in 1..Len(recorders') :
                 recorders'[r].tracks = "ended" \/ recorders'[r].stopping]_vars

====
